---- MODULE Spec2Model ----
(***************************************************************************)
(* Deferred localization in lighthouse-core/lib/i18n.js: the string        *)
(* formatter that mints placeholder tokens and records usages, setLocale,  *)
(* and replaceLocaleStringReferences, which walks a report, resolves every *)
(* token against the usage registry and attaches the localeLog.            *)
(*                                                                         *)
(* A JavaScript string is a sequence of one-character strings, so that the *)
(* token text, the two regular expressions and the decimal index are       *)
(* computed character by character.  Template texts are kept as atomic     *)
(* strings: the code only compares them, hands them to the message parser  *)
(* and formatter, and stores them.                                         *)
(***************************************************************************)
EXTENDS Integers, Sequences, FiniteSets, TLC

VARIABLES
  locale,                 \* i18n.js:13   module-level current locale
  formattedStringUsages,  \* i18n.js:74   Map<key, StringUsage[]>
  last,                   \* the last call made: its arguments and its outcome
  calls,                  \* history: the successful format calls, in call order
  pinned                  \* history: one earlier successful resolution pass

vars == <<locale, formattedStringUsages, last, calls, pinned>>

(***************************************************************************)
(* Bounds of the model.                                                    *)
(***************************************************************************)
MaxCalls == 3

(***************************************************************************)
(* Characters, decimal numerals, array indexing by a string.               *)
(***************************************************************************)
DigitChars == <<"0", "1", "2", "3", "4", "5", "6", "7", "8", "9">>

Digits == {"0", "1", "2", "3", "4", "5", "6", "7", "8", "9"}

IsDigit(c) == c \in Digits

DigitValue(c) == CHOOSE i \in 0..9 : DigitChars[i + 1] = c

\* `${n}` for a non-negative integer n
RECURSIVE NatToString(_)
NatToString(n) ==
  IF n < 10 THEN <<DigitChars[n + 1]>>
  ELSE NatToString(n \div 10) \o <<DigitChars[(n % 10) + 1]>>

RECURSIVE StringToNat(_)
StringToNat(s) ==
  IF s = <<>> THEN 0
  ELSE 10 * StringToNat(SubSeq(s, 1, Len(s) - 1)) + DigitValue(s[Len(s)])

\* a property name is an array index only in canonical form: "0", "7", "12",
\* never "00" or "07"
IsArrayIndex(s) ==
  /\ Len(s) >= 1
  /\ \A i \in 1..Len(s) : IsDigit(s[i])
  /\ (Len(s) = 1 \/ s[1] # "0")

\* usages[usageIndex] with usageIndex a string; found = FALSE is undefined
ArrayGet(arr, s) ==
  IF IsArrayIndex(s) /\ StringToNat(s) < Len(arr)
  THEN [found |-> TRUE, at |-> StringToNat(s) + 1]
  ELSE [found |-> FALSE, at |-> 0]

(***************************************************************************)
(* The two regular expressions of replaceInObject.                         *)
(***************************************************************************)
IsLineTerminator(c) == c = "\n"

\* `.` matches any character but a line terminator
RegexDot(c) == ~IsLineTerminator(c)

\* /.*!#.*#\d+$/.test(value): not anchored at the start, `$` is the end of
\* the input
\* positions of a `#` that `#\d+$` matches at: one followed by digits
\* only, up to the end
MatchHashes(value) ==
  {q \in 1..(Len(value) - 1) :
     /\ value[q] = "#"
     /\ \A k \in (q + 1)..Len(value) : IsDigit(value[k])}

\* `.*` matches value[p..q-1]
MatchFrom(value, p, q) == p <= q /\ \A k \in p..(q - 1) : RegexDot(value[k])

\* a variant whose pattern is /#\d+$/, without the `!#` part
TokenTest_HashDigits(value) == MatchHashes(value) # {}

TokenTest(value) ==
  LET hashes == MatchHashes(value)
  IN /\ hashes # {}
     /\ \E i \in 1..(Len(value) - 3) :
          /\ value[i] = "!"
          /\ value[i + 1] = "#"
          /\ \E j \in hashes : MatchFrom(value, i + 2, j)

\* a variant that cuts the value at its first `#`
TokenMatch_FirstHash(value) ==
  LET q == CHOOSE x \in 1..Len(value) :
             value[x] = "#" /\ \A y \in 1..(x - 1) : value[y] # "#"
  IN [templateKey |-> SubSeq(value, 1, q - 1),
      usageIndex  |-> SubSeq(value, q + 1, Len(value))]

\* value.match(/(.*)#(\d+)$/), for a value the test accepted.  The `#` of
\* the match is the last one of the value (only digits follow it); the
\* match starts at the leftmost position from which `.*` reaches that `#`,
\* which is the one after the last line terminator before it.
TokenMatch(value) ==
  LET q == CHOOSE x \in MatchHashes(value) : TRUE
      stops == {k \in 1..(q - 1) : IsLineTerminator(value[k])}
      p == IF stops = {} THEN 1
           ELSE 1 + (CHOOSE x \in stops : \A y \in stops : y <= x)
  IN [templateKey |-> SubSeq(value, p, q - 1),
      usageIndex  |-> SubSeq(value, q + 1, Len(value))]

(***************************************************************************)
(* JavaScript values held in a `values` object.  A number is the exact     *)
(* fraction n/d in lowest terms with d > 0.  "absent" is a property the    *)
(* object does not have; reading it gives undefined.                       *)
(***************************************************************************)
RECURSIVE GCD(_, _)
GCD(a, b) == IF b = 0 THEN a ELSE GCD(b, a % b)

Abs(x) == IF x < 0 THEN -x ELSE x

Num(n, d) ==
  LET g == GCD(Abs(n), d)
  IN [t |-> "number", n |-> n \div g, d |-> d \div g]

NaN       == [t |-> "NaN", n |-> 0, d |-> 1]
Undefined == [t |-> "undefined", n |-> 0, d |-> 1]
Null      == [t |-> "null", n |-> 0, d |-> 1]
Absent    == [t |-> "absent", n |-> 0, d |-> 1]

\* the placeholder ids of the templates of the model
Ids == {"timeInMs", "wastedBytes"}

NoValues == [present |-> FALSE, map |-> [id \in Ids |-> Absent]]

Values(m) == [present |-> TRUE, map |-> m]

\* ToNumber, as `/` applies it to its left operand
ToNumber(v) ==
  IF v.t = "number" THEN v
  ELSE IF v.t = "null" THEN Num(0, 1)
  ELSE NaN

\* a variant that rounds down
MathRound_Floor(x) ==
  IF x.t # "number" THEN NaN ELSE Num(x.n \div x.d, 1)

\* Math.round(x): the nearest integer, a tie going up
MathRound(x) ==
  IF x.t # "number" THEN NaN ELSE Num((2 * x.n + x.d) \div (2 * x.d), 1)

Divide(v, k) ==
  LET x == ToNumber(v)
  IN IF x.t # "number" THEN NaN ELSE Num(x.n, x.d * k)

Times(x, k) == IF x.t # "number" THEN NaN ELSE Num(x.n * k, x.d)

\* JSON.parse(JSON.stringify(values)) of one property: undefined is dropped,
\* NaN is written as null
JSONProperty(v) ==
  IF v.t \in {"undefined", "absent"} THEN Absent
  ELSE IF v.t = "NaN" THEN Null
  ELSE v

JSONClone(values) == Values([id \in Ids |-> JSONProperty(values.map[id])])

(***************************************************************************)
(* The message catalogs.  An object is the sequence of its entries in      *)
(* Object.keys order (none of the keys here is an integer index, so that   *)
(* is insertion order).                                                    *)
(***************************************************************************)
MsText      == "{timeInMs, number, milliseconds} ms"
BytesText   == "Saved {wastedBytes, number, bytes} KB"
MsTextDe    == "{timeInMs, number, milliseconds} Millisek."
MsTextXA    == "{timeInMs, number, milliseconds} [ms]"
BytesTextXA == "[Saved] {wastedBytes, number, bytes} [KB]"
\* a caller's message that reads like the token of the first `ms` record
AgainText   == "lighthouse-core/lib/i18n.js!#ms#0"

\* i18n.js:29-34
UIStrings ==
  << [key |-> <<"m", "s">>, text |-> MsText],
     [key |-> <<"c", "o", "l", "u", "m", "n", "U", "R", "L">>, text |-> "URL"],
     [key |-> <<"c", "o", "l", "u", "m", "n", "S", "i", "z", "e">>,
      text |-> "Size (KB)"],
     [key |-> <<"c", "o", "l", "u", "m", "n", "W", "a", "s", "t", "e", "d",
                "T", "i", "m", "e">>,
      text |-> "Potential Savings (ms)"] >>

\* path.relative(LH_ROOT, __filename)
CoreFile ==
  <<"l", "i", "g", "h", "t", "h", "o", "u", "s", "e", "-", "c", "o", "r", "e",
    "/", "l", "i", "b", "/", "i", "1", "8", "n", ".", "j", "s">>

FileA == <<"a", "u", "d", "i", "t", "s", "/", "a", ".", "j", "s">>
FileB == <<"a", "u", "d", "i", "t", "s", "/", "b", ".", "j", "s">>

KeyDisplayValue == <<"d", "i", "s", "p", "l", "a", "y", "V", "a", "l", "u", "e">>
KeyHash         == <<"k", "#", "1">>
KeyEmpty        == <<>>

\* the callers of createStringFormatter(filename, fileStrings): the file
\* name is given relative to LH_ROOT
FormatterA == [filename |-> FileA,
               fileStrings |-> << [key |-> KeyDisplayValue, text |-> BytesText],
                                  [key |-> KeyHash, text |-> "Title"] >>]

FormatterB == [filename |-> FileB,
               fileStrings |-> << [key |-> KeyEmpty, text |-> "Empty"] >>]

Time1234 ==
  Values([id \in Ids |-> IF id = "timeInMs" THEN Num(1234, 1) ELSE Absent])

TimeAndBytes ==
  Values([id \in Ids |-> IF id = "timeInMs" THEN Num(1235, 1)
                         ELSE Num(1536, 1)])

\* the call sites of the formatters: formatFn(template, values)
CallSites ==
  { [formatter |-> FormatterA, template |-> MsText, values |-> Time1234],
    [formatter |-> FormatterB, template |-> MsText, values |-> TimeAndBytes],
    [formatter |-> FormatterA, template |-> BytesText, values |-> TimeAndBytes],
    [formatter |-> FormatterA, template |-> "Title", values |-> NoValues],
    [formatter |-> FormatterA, template |-> BytesText, values |-> NoValues],
    [formatter |-> FormatterA, template |-> "Unregistered", values |-> NoValues],
    [formatter |-> FormatterB, template |-> BytesText, values |-> TimeAndBytes],
    [formatter |-> FormatterB, template |-> "Empty", values |-> NoValues] }

HasKey(obj, k) == \E i \in 1..Len(obj) : obj[i].key = k

Lookup(obj, k) == obj[CHOOSE i \in 1..Len(obj) : obj[i].key = k].text

RECURSIVE Spread(_, _)
\* {...a, ...b}: a's entries with b's texts for the keys b redefines, then
\* b's new keys, in b's order
Spread(a, b) ==
  IF b = <<>> THEN a
  ELSE LET e == Head(b)
           a1 == IF HasKey(a, e.key)
                 THEN [i \in 1..Len(a) |->
                         IF a[i].key = e.key THEN e ELSE a[i]]
                 ELSE Append(a, e)
       IN Spread(a1, Tail(b))

\* Object.keys(obj).find(key => obj[key] === template); 0 is undefined
FindKey(obj, template) ==
  LET hits == {i \in 1..Len(obj) : obj[i].text = template}
  IN IF hits = {} THEN 0 ELSE CHOOSE i \in hits : \A j \in hits : i <= j

(***************************************************************************)
(* The locale catalogs (./locales): locale -> key -> {message}.            *)
(***************************************************************************)
FileScopedKey(file, keyname) == file \o <<"!", "#">> \o keyname

KeyMs      == FileScopedKey(CoreFile, <<"m", "s">>)
KeyBytes   == FileScopedKey(FileA, KeyDisplayValue)
KeyTitle   == FileScopedKey(FileA, KeyHash)
KeyURL     == FileScopedKey(CoreFile, UIStrings[2].key)

LOCALES ==
  [l \in {"de", "en-XA"} |->
     IF l = "de"
     THEN << [key |-> KeyMs, text |-> MsTextDe] >>
     ELSE << [key |-> KeyMs, text |-> MsTextXA],
             [key |-> KeyBytes, text |-> BytesTextXA] >>]

\* the locales a caller may ask for; "en-GB" has no catalog
Locales == {"de", "en-XA", "en-GB"}

(***************************************************************************)
(* The message parser and formatter (intl-messageformat).                  *)
(***************************************************************************)
Literal(text) == [type |-> "literal", text |-> text, id |-> "", style |-> ""]

Argument(id, style) ==
  [type |-> "argument", text |-> <<>>, id |-> id, style |-> style]

\* MessageParser.parse(msg).elements
ParseElements(msg) ==
  CASE msg = MsText ->
         <<Argument("timeInMs", "milliseconds"), Literal(<<" ", "m", "s">>)>>
    [] msg = MsTextDe ->
         <<Argument("timeInMs", "milliseconds"),
           Literal(<<" ", "M", "i", "l", "l", "i", "s", "e", "k", ".">>)>>
    [] msg = MsTextXA ->
         <<Argument("timeInMs", "milliseconds"),
           Literal(<<" ", "[", "m", "s", "]">>)>>
    [] msg = BytesText ->
         <<Literal(<<"S", "a", "v", "e", "d", " ">>),
           Argument("wastedBytes", "bytes"), Literal(<<" ", "K", "B">>)>>
    [] msg = BytesTextXA ->
         <<Literal(<<"[", "S", "a", "v", "e", "d", "]", " ">>),
           Argument("wastedBytes", "bytes"),
           Literal(<<" ", "[", "K", "B", "]">>)>>
    [] msg = AgainText -> <<Literal(KeyMs \o <<"#", "0">>)>>
    [] msg = "URL" -> <<Literal(<<"U", "R", "L">>)>>
    [] msg = "Title" -> <<Literal(<<"T", "i", "t", "l", "e">>)>>
    [] msg = "Empty" -> <<Literal(<<"E", "m", "p", "t", "y">>)>>
    [] OTHER -> <<Literal(<<"?">>)>>

\* i18n.js:36-42: the only style the module defines
FormatsMaxFractionDigits(style) == IF style = "milliseconds" THEN 0 ELSE 3

\* the separators of the locale the number formatter resolves to: German
\* ones for a German locale, the default locale's for any other
Separators(loc) ==
  IF loc \in {"de", "de-DE"}
  THEN [group |-> ".", decimal |-> ","]
  ELSE [group |-> ",", decimal |-> "."]

RECURSIVE Grouped(_, _)
\* the digits of n with the group separator every three places
Grouped(n, sep) ==
  IF n < 1000 THEN NatToString(n)
  ELSE LET r == n % 1000
           pad == IF r < 10 THEN <<"0", "0">>
                  ELSE IF r < 100 THEN <<"0">> ELSE <<>>
       IN Grouped(n \div 1000, sep) \o <<sep>> \o pad \o NatToString(r)

RECURSIVE Pow10(_)
Pow10(k) == IF k = 0 THEN 1 ELSE 10 * Pow10(k - 1)

RECURSIVE Fraction(_, _)
\* the k fraction digits of m, without trailing zeros
Fraction(m, k) ==
  IF k = 0 \/ m = 0 THEN <<>>
  ELSE <<DigitChars[(m \div Pow10(k - 1)) + 1]>>
         \o Fraction(m % Pow10(k - 1), k - 1)

\* new Intl.NumberFormat(loc, {maximumFractionDigits}).format(v)
NumberFormat(v, loc, maxFraction) ==
  LET x == ToNumber(v)
      scale == Pow10(maxFraction)
      \* rounded to maxFraction places, a tie going away from zero
      m == (2 * Abs(x.n) * scale + x.d) \div (2 * x.d)
      frac == Fraction(m % scale, maxFraction)
  IN IF x.t # "number" THEN <<"N", "a", "N">>
     ELSE (IF x.n < 0 /\ m # 0 THEN <<"-">> ELSE <<>>)
            \o Grouped(m \div scale, Separators(loc).group)
            \o (IF frac = <<>> THEN <<>>
                ELSE <<Separators(loc).decimal>> \o frac)

RECURSIVE FormatElements(_, _, _)
\* the formatter's walk over the parsed message; threw when an argument has
\* no own property in values
FormatElements(els, loc, values) ==
  IF els = <<>> THEN [threw |-> FALSE, message |-> <<>>]
  ELSE LET el == Head(els)
           rest == FormatElements(Tail(els), loc, values)
       IN IF el.type = "literal"
          THEN [rest EXCEPT !.message = el.text \o @]
          ELSE IF ~values.present \/ values.map[el.id].t = "absent"
          THEN [threw |-> TRUE, message |-> <<>>]
          ELSE [rest EXCEPT !.message =
                  NumberFormat(values.map[el.id], loc,
                               FormatsMaxFractionDigits(el.style)) \o @]

\* new MessageFormat(template, loc, formats).format(values)
MessageFormat(template, loc, values) ==
  LET r == FormatElements(ParseElements(template), loc, values)
  IN IF r.threw THEN [threw |-> TRUE, message |-> <<>>] ELSE r

(***************************************************************************)
(* preprocessMessageValues, i18n.js:48-64.  `values` is passed by          *)
(* reference: the result is the returned object together with the          *)
(* caller's object as the call leaves it.                                  *)
(***************************************************************************)
RECURSIVE ForEachStyled(_, _, _)
\* parsed.elements.filter(el => el.format && el.format.style === style)
\*   .forEach(el => (clonedValues[el.id] = ...))
ForEachStyled(els, style, map) ==
  IF els = <<>> THEN map
  ELSE LET el == Head(els)
           m1 == IF el.type = "argument" /\ el.style = style
                 THEN [map EXCEPT ![el.id] =
                         IF style = "milliseconds"
                         THEN Times(MathRound(Divide(@, 10)), 10)
                         ELSE Divide(@, 1024)]
                 ELSE map
       IN ForEachStyled(Tail(els), style, m1)

\* a variant that rounds and converts in the object it was handed
preprocessMessageValues_InPlace(msg, values) ==
  IF ~values.present
  THEN [returned |-> NoValues, argument |-> values]
  ELSE LET parsed == ParseElements(msg)
           ms == ForEachStyled(parsed, "milliseconds", values.map)
           kb == ForEachStyled(parsed, "bytes", ms)
       IN [returned |-> Values(kb), argument |-> Values(kb)]

preprocessMessageValues(msg, values) ==
  IF ~values.present
  THEN [returned |-> NoValues, argument |-> values]
  ELSE LET clonedValues == JSONClone(values)
           parsed == ParseElements(msg)
           ms == ForEachStyled(parsed, "milliseconds", clonedValues.map)
           kb == ForEachStyled(parsed, "bytes", ms)
       IN [returned |-> Values(kb), argument |-> values]

(***************************************************************************)
(* formatTemplate, i18n.js:76-91.  The outcome: threw (the formatter       *)
(* raised), the formatted string, the template that was formatted, and the *)
(* caller's values object as the call leaves it.                           *)
(***************************************************************************)
\* a variant without the fallback to the recorded template
formatTemplate_NoFallback(loc, key, template, values) ==
  LET localeTemplates == IF loc \in DOMAIN LOCALES THEN LOCALES[loc] ELSE <<>>
      localeForMessageFormat == IF loc = "en-XA" THEN "de-DE" ELSE loc
      Formatted(localeTemplate, pre) ==
        LET Outcome(formatted) ==
              [threw |-> formatted.threw, message |-> formatted.message,
               template |-> localeTemplate, values |-> pre.argument]
        IN Outcome(MessageFormat(localeTemplate, localeForMessageFormat,
                                 pre.returned))
      \* no template to hand to the formatter
      Failed(pre) == [threw |-> TRUE, message |-> <<>>, template |-> "",
                      values |-> pre.argument]
  IN IF HasKey(localeTemplates, key)
     THEN Formatted(Lookup(localeTemplates, key),
                    preprocessMessageValues(template, values))
     ELSE Failed(preprocessMessageValues(template, values))

\* a variant that formats the recorded values as they are
formatTemplate_RawValues(loc, key, template, values) ==
  LET localeTemplates == IF loc \in DOMAIN LOCALES THEN LOCALES[loc] ELSE <<>>
      hasLocaleTemplate == HasKey(localeTemplates, key)
                             /\ Lookup(localeTemplates, key) # ""
      localeForMessageFormat == IF loc = "en-XA" THEN "de-DE" ELSE loc
      Formatted(templateForMessageFormat) ==
        LET Outcome(formatted) ==
              [threw |-> formatted.threw, message |-> formatted.message,
               template |-> templateForMessageFormat, values |-> values]
        IN Outcome(MessageFormat(templateForMessageFormat,
                                 localeForMessageFormat, values))
  IN Formatted(IF hasLocaleTemplate THEN Lookup(localeTemplates, key)
               ELSE template)

formatTemplate(loc, key, template, values) ==
  LET localeTemplates == IF loc \in DOMAIN LOCALES THEN LOCALES[loc] ELSE <<>>
      \* localeTemplates[key] && localeTemplates[key].message
      hasLocaleTemplate == HasKey(localeTemplates, key)
                             /\ Lookup(localeTemplates, key) # ""
      localeForMessageFormat == IF loc = "en-XA" THEN "de-DE" ELSE loc
      \* pre: the outcome of preprocessMessageValues(template, values);
      \* formatted: that of formatter.format(valuesForMessageFormat)
      Formatted(templateForMessageFormat, pre) ==
        LET Outcome(formatted) ==
              [threw |-> formatted.threw, message |-> formatted.message,
               template |-> templateForMessageFormat,
               values |-> pre.argument]
        IN Outcome(MessageFormat(templateForMessageFormat,
                                 localeForMessageFormat, pre.returned))
  IN Formatted(IF hasLocaleTemplate THEN Lookup(localeTemplates, key)
               ELSE template,
               preprocessMessageValues(template, values))

(***************************************************************************)
(* The usage registry: a Map is a function on the set of its keys.         *)
(***************************************************************************)
EmptyMap == <<>>

MapGet(map, k, default) == IF k \in DOMAIN map THEN map[k] ELSE default

MapSet(map, k, v) ==
  [x \in (DOMAIN map) \cup {k} |-> IF x = k THEN v ELSE map[x]]

(***************************************************************************)
(* createStringFormatter(filename, fileStrings) and its formatFn,          *)
(* i18n.js:99-117.                                                         *)
(***************************************************************************)
\* properties every object inherits, which `in` also finds
ObjectPrototypeKeys ==
  { <<"c", "o", "n", "s", "t", "r", "u", "c", "t", "o", "r">>,
    <<"t", "o", "S", "t", "r", "i", "n", "g">>,
    <<"v", "a", "l", "u", "e", "O", "f">> }

\* keyname in UIStrings
InUIStrings(keyname) ==
  HasKey(UIStrings, keyname) \/ keyname \in ObjectPrototypeKeys

\* !keyname: undefined (nothing found) or the empty string
NoKeyname(mergedStrings, found) ==
  found = 0 \/ mergedStrings[found].key = <<>>

\* a variant that numbers the records with one counter for all keys
formatFn_SharedCounter(formatter, template, values, usages) ==
  LET mergedStrings == Spread(UIStrings, formatter.fileStrings)
      found == FindKey(mergedStrings, template)
  IN IF NoKeyname(mergedStrings, found)
     THEN [threw |-> TRUE, error |-> template, returned |-> <<>>,
           key |-> <<>>, usages |-> usages]
     ELSE
       LET keyname == mergedStrings[found].key
           filenameToLookup ==
             IF InUIStrings(keyname) THEN CoreFile ELSE formatter.filename
           key == FileScopedKey(filenameToLookup, keyname)
           keyUsages ==
             Append(MapGet(usages, key, <<>>),
                    [key |-> key, template |-> template, values |-> values])
           RECURSIVE Total(_)
           Total(ks) == IF ks = {} THEN 0
                        ELSE LET k == CHOOSE x \in ks : TRUE
                             IN Len(usages[k]) + Total(ks \ {k})
       IN [threw |-> FALSE, error |-> "",
           returned |-> key \o <<"#">> \o NatToString(Total(DOMAIN usages)),
           key |-> key,
           usages |-> MapSet(usages, key, keyUsages)]

\* a variant that starts the key's array afresh at every call
formatFn_FreshArray(formatter, template, values, usages) ==
  LET mergedStrings == Spread(UIStrings, formatter.fileStrings)
      found == FindKey(mergedStrings, template)
  IN IF NoKeyname(mergedStrings, found)
     THEN [threw |-> TRUE, error |-> template, returned |-> <<>>,
           key |-> <<>>, usages |-> usages]
     ELSE
       LET keyname == mergedStrings[found].key
           filenameToLookup ==
             IF InUIStrings(keyname) THEN CoreFile ELSE formatter.filename
           key == FileScopedKey(filenameToLookup, keyname)
           keyUsages ==
             <<[key |-> key, template |-> template, values |-> values]>>
       IN [threw |-> FALSE, error |-> "",
           returned |-> key \o <<"#">> \o NatToString(Len(keyUsages) - 1),
           key |-> key,
           usages |-> MapSet(usages, key, keyUsages)]

formatFn(formatter, template, values, usages) ==
  LET mergedStrings == Spread(UIStrings, formatter.fileStrings)
      found == FindKey(mergedStrings, template)
  IN IF NoKeyname(mergedStrings, found)
     THEN [threw |-> TRUE, error |-> template, returned |-> <<>>,
           key |-> <<>>, usages |-> usages]
     ELSE
       LET keyname == mergedStrings[found].key
           filenameToLookup ==
             IF InUIStrings(keyname) THEN CoreFile ELSE formatter.filename
           key == FileScopedKey(filenameToLookup, keyname)
           keyUsages ==
             Append(MapGet(usages, key, <<>>),
                    [key |-> key, template |-> template, values |-> values])
       IN [threw |-> FALSE, error |-> "",
           returned |-> key \o <<"#">> \o NatToString(Len(keyUsages) - 1),
           key |-> key,
           usages |-> MapSet(usages, key, keyUsages)]

(***************************************************************************)
(* setLocale, i18n.js:121-124.  null and undefined are the two values      *)
(* below; with the empty string they are the falsy arguments.              *)
(***************************************************************************)
JSNull == "<null>"
JSUndefined == "<undefined>"

\* a variant without the test of its argument
setLocale_Unchecked(newLocale, current) == newLocale

setLocale(newLocale, current) ==
  IF newLocale \in {"", JSNull, JSUndefined} THEN current ELSE newLocale

(***************************************************************************)
(* The report: a tree of objects, arrays and scalar leaves.  A container   *)
(* is the sequence of its [key, value] pairs as Object.entries gives them. *)
(***************************************************************************)
Str(s)  == [kind |-> "string", str |-> s, entries |-> <<>>]
Scalar(kind, s) == [kind |-> kind, str |-> s, entries |-> <<>>]
Obj(es) == [kind |-> "object", str |-> <<>>, entries |-> es]
Arr(es) == [kind |-> "array", str |-> <<>>, entries |-> es]
Entry(k, v) == [key |-> k, value |-> v]

\* typeof obj !== 'object' || !obj
NotAContainer(obj) == obj.kind \notin {"object", "array"}

(***************************************************************************)
(* replaceLocaleStringReferences and its replaceInObject,                  *)
(* i18n.js:128-157.  The walk threads what it mutates: the log, and the    *)
(* registry, whose records' values are handed to formatTemplate by         *)
(* reference.  threw ends the walk where the exception is raised.          *)
(***************************************************************************)
\* a variant that leaves a token without a usage record where it is
ReplaceToken_SkipMissing(value, st, currentPath, loc) ==
  LET Replace(templateKey, usageIndex) ==
        LET usages == MapGet(st.usages, templateKey, <<>>)
            got == ArrayGet(usages, usageIndex)
            occurrences ==
              IF templateKey \in DOMAIN st.log
              THEN st.log[templateKey].occurrences ELSE <<>>
            \* f: the outcome of formatTemplate for the usage record
            Formatted(f) ==
              LET usages1 == [usages EXCEPT ![got.at].values = f.values]
              IN IF f.threw
                 THEN [obj |-> Str(value),
                       st |-> [st EXCEPT
                                 !.threw = TRUE,
                                 !.usages = MapSet(@, templateKey, usages1)]]
                 ELSE [obj |-> Str(f.message),
                       st |-> [st EXCEPT
                                 !.usages = MapSet(@, templateKey, usages1),
                                 !.log =
                                   MapSet(@, templateKey,
                                          [template |-> f.template,
                                           occurrences |->
                                             Append(occurrences,
                                                    [values |-> f.values,
                                                     path |-> currentPath])])]]
        IN IF ~got.found
           THEN [obj |-> Str(value), st |-> st]
           ELSE Formatted(formatTemplate(loc, templateKey,
                                         usages[got.at].template,
                                         usages[got.at].values))
      m == TokenMatch(value)
  IN Replace(m.templateKey, m.usageIndex)

\* a variant that starts the occurrences of a key afresh at every token
ReplaceToken_FreshOccurrences(value, st, currentPath, loc) ==
  LET Replace(templateKey, usageIndex) ==
        LET usages == MapGet(st.usages, templateKey, <<>>)
            got == ArrayGet(usages, usageIndex)
            occurrences ==
              <<>>
            \* f: the outcome of formatTemplate for the usage record
            Formatted(f) ==
              LET usages1 == [usages EXCEPT ![got.at].values = f.values]
              IN IF f.threw
                 THEN [obj |-> Str(value),
                       st |-> [st EXCEPT
                                 !.threw = TRUE,
                                 !.usages = MapSet(@, templateKey, usages1)]]
                 ELSE [obj |-> Str(f.message),
                       st |-> [st EXCEPT
                                 !.usages = MapSet(@, templateKey, usages1),
                                 !.log =
                                   MapSet(@, templateKey,
                                          [template |-> f.template,
                                           occurrences |->
                                             Append(occurrences,
                                                    [values |-> f.values,
                                                     path |-> currentPath])])]]
        IN IF ~got.found
           THEN \* usage is undefined: usage.values throws
                [obj |-> Str(value), st |-> [st EXCEPT !.threw = TRUE]]
           ELSE Formatted(formatTemplate(loc, templateKey,
                                         usages[got.at].template,
                                         usages[got.at].values))
      m == TokenMatch(value)
  IN Replace(m.templateKey, m.usageIndex)

\* lines 135-147, for one entry whose value passed the test: the new value
\* of the entry and the walk's state after it
ReplaceToken(value, st, currentPath, loc) ==
  LET Replace(templateKey, usageIndex) ==
        LET usages == MapGet(st.usages, templateKey, <<>>)
            got == ArrayGet(usages, usageIndex)
            occurrences ==
              IF templateKey \in DOMAIN st.log
              THEN st.log[templateKey].occurrences ELSE <<>>
            \* f: the outcome of formatTemplate for the usage record
            Formatted(f) ==
              LET usages1 == [usages EXCEPT ![got.at].values = f.values]
              IN IF f.threw
                 THEN [obj |-> Str(value),
                       st |-> [st EXCEPT
                                 !.threw = TRUE,
                                 !.usages = MapSet(@, templateKey, usages1)]]
                 ELSE [obj |-> Str(f.message),
                       st |-> [st EXCEPT
                                 !.usages = MapSet(@, templateKey, usages1),
                                 !.log =
                                   MapSet(@, templateKey,
                                          [template |-> f.template,
                                           occurrences |->
                                             Append(occurrences,
                                                    [values |-> f.values,
                                                     path |-> currentPath])])]]
        IN IF ~got.found
           THEN \* usage is undefined: usage.values throws
                [obj |-> Str(value), st |-> [st EXCEPT !.threw = TRUE]]
           ELSE Formatted(formatTemplate(loc, templateKey,
                                         usages[got.at].template,
                                         usages[got.at].values))
      m == TokenMatch(value)
  IN Replace(m.templateKey, m.usageIndex)

RECURSIVE replaceInObject(_, _, _, _)
RECURSIVE ReplaceEntries(_, _, _, _, _)

\* a variant whose loop goes on after an entry has raised an error
ReplaceEntries_GoesOn(entries, i, st, path, loc) ==
  IF i > Len(entries) THEN [entries |-> entries, st |-> st]
  ELSE
    LET value == entries[i].value
        currentPath == Append(path, entries[i].key)
        Iterate(r) ==
          ReplaceEntries([entries EXCEPT ![i].value = r.obj],
                         i + 1, [r.st EXCEPT !.threw = @ \/ st.threw],
                         path, loc)
    IN Iterate(IF value.kind = "string" /\ TokenTest(value.str)
               THEN ReplaceToken(value.str, [st EXCEPT !.threw = FALSE],
                                 currentPath, loc)
               ELSE replaceInObject(value, [st EXCEPT !.threw = FALSE],
                                    currentPath, loc))

\* a variant that looks again at an entry it has just written
ReplaceEntries_Reexamine(entries, i, st, path, loc) ==
  IF i > Len(entries) \/ st.threw THEN [entries |-> entries, st |-> st]
  ELSE
    LET value == entries[i].value
        currentPath == Append(path, entries[i].key)
        isToken == value.kind = "string" /\ TokenTest(value.str)
        Iterate(r) ==
          ReplaceEntries([entries EXCEPT ![i].value = r.obj],
                         IF isToken THEN i ELSE i + 1, r.st, path, loc)
    IN Iterate(IF isToken
               THEN ReplaceToken(value.str, st, currentPath, loc)
               ELSE replaceInObject(value, st, currentPath, loc))

\* the for loop of lines 132-151 from entry i on, over the entries as the
\* earlier iterations left them
ReplaceEntries(entries, i, st, path, loc) ==
  IF i > Len(entries) \/ st.threw THEN [entries |-> entries, st |-> st]
  ELSE
    LET value == entries[i].value
        currentPath == Append(path, entries[i].key)
        \* r: the entry's value and the walk's state after the iteration
        Iterate(r) ==
          ReplaceEntries([entries EXCEPT ![i].value = r.obj],
                         i + 1, r.st, path, loc)
    IN Iterate(IF value.kind = "string" /\ TokenTest(value.str)
               THEN ReplaceToken(value.str, st, currentPath, loc)
               ELSE replaceInObject(value, st, currentPath, loc))

replaceInObject(obj, st, path, loc) ==
  IF NotAContainer(obj) THEN [obj |-> obj, st |-> st]
  ELSE LET Walked(r) ==
             [obj |-> [obj EXCEPT !.entries = r.entries], st |-> r.st]
       IN Walked(ReplaceEntries(obj.entries, 1, st, path, loc))

\* a variant that formats at the module's current locale, not at the one
\* it was called with
replaceLocaleStringReferences_CurrentLocale(lhr, loc, usages) ==
  LET Outcome(r) ==
        IF r.st.threw \/ NotAContainer(lhr)
        THEN [threw |-> TRUE, lhr |-> r.obj, attached |-> FALSE,
              localeLog |-> EmptyMap, usages |-> r.st.usages]
        ELSE [threw |-> FALSE, lhr |-> r.obj, attached |-> TRUE,
              localeLog |-> r.st.log, usages |-> r.st.usages]
  IN Outcome(replaceInObject(lhr,
                             [log |-> EmptyMap, usages |-> usages,
                              threw |-> FALSE],
                             <<>>, locale))

\* the outcome of one call: the tree as the call leaves it, the log it
\* attached (attached = FALSE: no localeLog was set), the registry after it
replaceLocaleStringReferences(lhr, loc, usages) ==
  LET \* r: the walk's outcome; lhr.localeLog = log is a TypeError in strict
      \* mode when lhr is no object
      Outcome(r) ==
        IF r.st.threw \/ NotAContainer(lhr)
        THEN [threw |-> TRUE, lhr |-> r.obj, attached |-> FALSE,
              localeLog |-> EmptyMap, usages |-> r.st.usages]
        ELSE [threw |-> FALSE, lhr |-> r.obj, attached |-> TRUE,
              localeLog |-> r.st.log, usages |-> r.st.usages]
  IN Outcome(replaceInObject(lhr,
                             [log |-> EmptyMap, usages |-> usages,
                              threw |-> FALSE],
                             <<>>, loc))

(***************************************************************************)
(* The inputs of the calls.                                                *)
(***************************************************************************)
TokenOf(key, i) == key \o <<"#">> \o NatToString(i)

\* the tokens minted so far
MintedLeaves(usages) ==
  UNION {{Str(TokenOf(k, i)) : i \in 0..(Len(usages[k]) - 1)} :
           k \in DOMAIN usages}

\* the first index of KeyMs not minted yet
PastEndLeaf(usages) == Str(TokenOf(KeyMs, Len(MapGet(usages, KeyMs, <<>>))))

\* tokens no call returned: an index past the end, a key never recorded
\* (no call site formats "URL"), and index 0 written "00"
DanglingLeaves(usages) ==
  { PastEndLeaf(usages),
    Str(TokenOf(KeyURL, 0)),
    Str(KeyMs \o <<"#", "0", "0">>) }

\* report text that is no token, and leaves that are no strings
OtherLeaves ==
  { Str(<<"x", "#", "1", "2">>),
    Str(<<"!", "#", "\n", "#", "1">>),
    Scalar("number", <<"4", "2">>),
    Scalar("null", <<>>) }

Leaves(usages) ==
  MintedLeaves(usages) \cup DanglingLeaves(usages) \cup OtherLeaves

TitleTree(leaf) == Obj(<<Entry("title", leaf)>>)

AuditsTree(l1, l2) ==
  Obj(<<Entry("audits",
              Obj(<<Entry("a", Obj(<<Entry("displayValue", l1)>>)),
                    Entry("b", Obj(<<Entry("displayValue", l2)>>))>>))>>)

ItemsTree(l1, l2) ==
  Obj(<<Entry("items", Arr(<<Entry("0", l1), Entry("1", l2)>>)),
        Entry("score", Scalar("number", <<"1">>))>>)

Trees(usages) ==
  {TitleTree(l) : l \in Leaves(usages)}
    \cup {AuditsTree(l1, l2) : l1 \in MintedLeaves(usages),
                                l2 \in MintedLeaves(usages)
                                        \cup {PastEndLeaf(usages)}}
    \cup {ItemsTree(l1, l2) : l1 \in {Str(<<"x", "#", "1", "2">>),
                                      PastEndLeaf(usages)},
                               l2 \in MintedLeaves(usages)}

\* "tlh" is a locale no catalog and no number format knows
SetLocaleInputs == {"tlh", "", JSNull, JSUndefined}

(***************************************************************************)
(* The state machine: one action per exported call.                        *)
(***************************************************************************)
Init ==
  /\ locale = "en"                      \* MessageFormat.defaultLocale
  /\ formattedStringUsages = EmptyMap
  /\ last = [op |-> "none"]
  /\ calls = <<>>
  /\ pinned = [op |-> "none"]

Format(formatter, template, values) ==
  /\ last.op = "none"
  /\ \E r \in {formatFn(formatter, template, values, formattedStringUsages)} :
       /\ r.threw \/ Len(calls) < MaxCalls
       /\ formattedStringUsages' = r.usages
       /\ last' = [op |-> "format", formatter |-> formatter,
                   template |-> template, values |-> values,
                   threw |-> r.threw, error |-> r.error,
                   returned |-> r.returned, key |-> r.key,
                   before |-> formattedStringUsages]
       /\ calls' = IF r.threw THEN calls
                   ELSE Append(calls,
                               [formatter |-> formatter, key |-> r.key,
                                template |-> template, values |-> values,
                                token |-> r.returned])
  /\ UNCHANGED <<locale, pinned>>

SetLocale(newLocale) ==
  /\ last.op = "none"
  /\ locale' = setLocale(newLocale, locale)
  /\ last' = [op |-> "setLocale", newLocale |-> newLocale, before |-> locale]
  /\ UNCHANGED <<formattedStringUsages, calls, pinned>>

Resolve(lhr, loc) ==
  /\ last.op = "none"
  /\ \E r \in {replaceLocaleStringReferences(lhr, loc,
                                             formattedStringUsages)} :
       /\ formattedStringUsages' = r.usages
       /\ last' = [op |-> "resolve", lhr |-> lhr, locale |-> loc,
                   threw |-> r.threw, out |-> r.lhr, attached |-> r.attached,
                   localeLog |-> r.localeLog,
                   before |-> formattedStringUsages]
  /\ UNCHANGED <<locale, calls, pinned>>

\* the caller goes on to its next call; what the last one returned is no
\* longer looked at
Continue ==
  /\ last.op # "none"
  /\ last' = [op |-> "none"]
  /\ UNCHANGED <<locale, formattedStringUsages, calls, pinned>>

Next ==
  \/ \E c \in CallSites : Format(c.formatter, c.template, c.values)
  \/ \E l \in SetLocaleInputs : SetLocale(l)
  \/ \E lhr \in Trees(formattedStringUsages), loc \in Locales :
       Resolve(lhr, loc)
  \/ Continue

Spec == Init /\ [][Next]_vars

(***************************************************************************)
(* The same calls with one completed pass remembered, to compare a later   *)
(* pass over a pristine copy of the same tree with it.  The trees are the  *)
(* reports built from the tokens minted so far.                            *)
(***************************************************************************)
\* the call sites that pass both values
RepeatCallSites == {c \in CallSites : c.values = TimeAndBytes}

RepeatTrees ==
  {TitleTree(Str(calls[i].token)) : i \in 1..Len(calls)}
    \cup {AuditsTree(Str(calls[c[1]].token), Str(calls[c[2]].token)) :
            c \in {d \in (1..Len(calls)) \X (1..Len(calls)) : d[1] < d[2]}}

\* the caller keeps the outcome of a completed pass
Pin ==
  /\ last.op = "resolve"
  /\ ~last.threw
  /\ pinned.op = "none"
  /\ pinned' = last
  /\ last' = [op |-> "none"]
  /\ UNCHANGED <<locale, formattedStringUsages, calls>>

NextRepeat ==
  \/ \E c \in RepeatCallSites : Format(c.formatter, c.template, c.values)
  \/ \E l \in {"de", ""} : SetLocale(l)
  \/ \E lhr \in RepeatTrees, loc \in Locales : Resolve(lhr, loc)
  \/ Continue
  \/ Pin

SpecRepeat == Init /\ [][NextRepeat]_vars

(***************************************************************************)
(* Recording by a caller whose catalog uses key names the core catalog or  *)
(* every object also has.                                                  *)
(***************************************************************************)
FileC == <<"a", "u", "d", "i", "t", "s", "/", "c", ".", "j", "s">>

\* a caller that names a message of its own `ms`, as the core catalog
\* does, and another `toString`
FormatterC ==
  [filename |-> FileC,
   fileStrings |-> << [key |-> <<"m", "s">>, text |-> "Elapsed"],
                      [key |-> <<"t", "o", "S", "t", "r", "i", "n", "g">>,
                       text |-> "Text"],
                      [key |-> KeyDisplayValue, text |-> BytesText] >>]

OverrideCallSites ==
  { [formatter |-> FormatterC, template |-> "Elapsed", values |-> NoValues],
    [formatter |-> FormatterC, template |-> "Text", values |-> NoValues],
    [formatter |-> FormatterC, template |-> BytesText, values |-> TimeAndBytes],
    [formatter |-> FormatterC, template |-> "URL", values |-> NoValues],
    [formatter |-> FormatterC, template |-> MsText, values |-> Time1234] }

NextOrigin ==
  \/ \E c \in CallSites \cup OverrideCallSites :
       Format(c.formatter, c.template, c.values)
  \/ Continue

SpecOrigin == Init /\ [][NextOrigin]_vars

(***************************************************************************)
(* Passes over deeper reports all of whose tokens resolve, one of them to  *)
(* a message that itself reads like a token.                               *)
(***************************************************************************)
KeyAgain == <<"a", "g", "a", "i", "n">>

FormatterD == [filename |-> FileB,
               fileStrings |-> << [key |-> KeyAgain, text |-> AgainText] >>]

WalkCallSites ==
  { [formatter |-> FormatterD, template |-> AgainText, values |-> NoValues],
    [formatter |-> FormatterA, template |-> MsText, values |-> Time1234] }

\* objects in an array in objects, next to an empty object and an empty array
DeepTree(l1, l2, l3) ==
  Obj(<<Entry("audits",
              Obj(<<Entry("a",
                          Obj(<<Entry("details",
                                      Obj(<<Entry("items",
                                                  Arr(<<Entry("0",
                                                              Obj(<<Entry("url", l1)>>)),
                                                        Entry("1", l2)>>))>>)),
                                Entry("title", l3)>>))>>)),
        Entry("timing", Obj(<<>>)),
        Entry("runWarnings", Arr(<<>>))>>)

WalkLeaves(usages) ==
  MintedLeaves(usages)
    \cup {Str(<<"x", "#", "1", "2">>), Scalar("null", <<>>)}

WalkTrees(usages) ==
  {DeepTree(l1, l2, l3) : l1 \in WalkLeaves(usages),
                          l2 \in WalkLeaves(usages),
                          l3 \in WalkLeaves(usages)}

NextWalk ==
  \/ \E c \in WalkCallSites : Format(c.formatter, c.template, c.values)
  \/ \E lhr \in WalkTrees(formattedStringUsages), loc \in {"de", "en-GB"} :
       Resolve(lhr, loc)
  \/ Continue

SpecWalk == Init /\ [][NextWalk]_vars

(***************************************************************************)
(* preprocessMessageValues on its own: a call on a template and a values   *)
(* object, and a second call on the same template and the same object as   *)
(* the first call left it.                                                 *)
(***************************************************************************)
\* the integers tried lie in -MaxTie..MaxTie, with the ties of rounding to
\* ten among them, next to the values of the call sites
MaxTie == 16

IntegerInputs == ((0 - MaxTie)..MaxTie) \cup {1234, 1235, 1536}

\* what a caller may put under a placeholder id: nothing, undefined, null,
\* NaN, an integer, a number with a fraction
RawValues ==
  {Absent, Undefined, Null, NaN, Num(5, 2)}
    \cup {Num(x, 1) : x \in IntegerInputs}

PreprocessValues ==
  {NoValues} \cup {Values(m) : m \in [Ids -> RawValues]}

PreprocessTemplates == {MsText, BytesText, "Title"}

Preprocess(msg, values) ==
  /\ last.op = "none"
  /\ \E r \in {preprocessMessageValues(msg, values)} :
       last' = [op |-> "preprocess", msg |-> msg, values |-> values,
                returned |-> r.returned, argument |-> r.argument,
                again |-> FALSE, returned2 |-> NoValues]
  /\ UNCHANGED <<locale, formattedStringUsages, calls, pinned>>

PreprocessAgain ==
  /\ last.op = "preprocess"
  /\ ~last.again
  /\ \E r \in {preprocessMessageValues(last.msg, last.argument)} :
       last' = [last EXCEPT !.again = TRUE, !.returned2 = r.returned,
                            !.argument = r.argument]
  /\ UNCHANGED <<locale, formattedStringUsages, calls, pinned>>

NextPreprocess ==
  \/ \E msg \in PreprocessTemplates, values \in PreprocessValues :
       Preprocess(msg, values)
  \/ PreprocessAgain
  \/ Continue

SpecPreprocess == Init /\ [][NextPreprocess]_vars

(***************************************************************************)
(* Reading a tree and the call history back, for the properties.           *)
(***************************************************************************)
RECURSIVE LeavesOf(_, _)
RECURSIVE LeavesOfEntries(_, _, _)

LeavesOfEntries(entries, i, path) ==
  IF i > Len(entries) THEN <<>>
  ELSE LeavesOf(entries[i].value, Append(path, entries[i].key))
         \o LeavesOfEntries(entries, i + 1, path)

\* the scalar leaves of a tree with their paths, in depth-first order
LeavesOf(node, path) ==
  IF NotAContainer(node) THEN <<[path |-> path, node |-> node]>>
  ELSE LeavesOfEntries(node.entries, 1, path)

\* how many earlier successful format calls had the key of the i-th one
CallIndex(i) == Cardinality({j \in 1..(i - 1) : calls[j].key = calls[i].key})

\* the successful format calls that returned the string s
CallsReturning(s) == {i \in 1..Len(calls) : calls[i].token = s}

(***************************************************************************)
(* C1.  For every key, the k-th format call that maps to the key returns   *)
(* the token <key>#k (k = 0, 1, 2, ... in call order, whatever calls for   *)
(* other keys, setLocale calls and resolution passes come in between), and *)
(* a pass that completes replaces a leaf holding that token by the message *)
(* formatted from the template and values of that very call.               *)
(***************************************************************************)
C1_IndicesInCallOrder ==
  /\ \A i \in 1..Len(calls) :
       calls[i].token = calls[i].key \o <<"#">> \o NatToString(CallIndex(i))
  /\ (last.op = "resolve" /\ ~last.threw) =>
       LET before == LeavesOf(last.lhr, <<>>)
           after == LeavesOf(last.out, <<>>)
       IN \A n \in 1..Len(before) :
            \A i \in CallsReturning(before[n].node.str) :
              before[n].node.kind = "string" =>
                after[n].node =
                  Str(formatTemplate(last.locale, calls[i].key,
                                     calls[i].template,
                                     calls[i].values).message)

\* three calls, the first and third for one key with different values and
\* another key in between, a setLocale, then a completed pass over both
\* tokens of the key, the later one first
C1_Witness ==
  /\ Len(calls) = 3
  /\ calls[1].key = calls[3].key
  /\ calls[2].key # calls[1].key
  /\ calls[1].values # calls[3].values
  /\ locale = "tlh"
  /\ last.op = "resolve"
  /\ ~last.threw
  /\ last.lhr = AuditsTree(Str(calls[3].token), Str(calls[1].token))

(***************************************************************************)
(* C2.  When a pass at locale L runs on a tree whose only token leaf is a  *)
(* token that format(t, v) returned, the leaf afterwards holds the message *)
(* obtained by formatting directly: the template of the locale's catalog   *)
(* for the key if there is one, else t, with the preprocessed copy of v,   *)
(* under L's number conventions (those of de-DE for the pseudo-locale      *)
(* en-XA).  The pass fails exactly when that direct formatting fails.      *)
(***************************************************************************)
DirectFormat(loc, key, t, v) ==
  LET catalog == IF loc \in DOMAIN LOCALES THEN LOCALES[loc] ELSE <<>>
      text == IF HasKey(catalog, key) THEN Lookup(catalog, key) ELSE t
      copy == preprocessMessageValues(t, v).returned
  IN MessageFormat(text, IF loc = "en-XA" THEN "de-DE" ELSE loc, copy)

\* the positions of the leaves the resolver takes for tokens
TokenPositions(leaves) ==
  {n \in 1..Len(leaves) :
     leaves[n].node.kind = "string" /\ TokenTest(leaves[n].node.str)}

C2_ResolveEqualsDirectFormat ==
  last.op = "resolve" =>
    LET before == LeavesOf(last.lhr, <<>>)
        after == LeavesOf(last.out, <<>>)
    IN \A n \in TokenPositions(before) :
         \A i \in CallsReturning(before[n].node.str) :
           TokenPositions(before) = {n} =>
             LET d == DirectFormat(last.locale, calls[i].key,
                                   calls[i].template, calls[i].values)
             IN IF d.threw THEN last.threw
                ELSE ~last.threw /\ after[n].node = Str(d.message)

\* a completed pass at the pseudo-locale over the one token of a call whose
\* values the preprocessor changes
C2_Witness ==
  /\ last.op = "resolve"
  /\ last.locale = "en-XA"
  /\ ~last.threw
  /\ \E i \in 1..Len(calls) :
       /\ calls[i].key = KeyBytes
       /\ last.lhr = TitleTree(Str(calls[i].token))
       /\ preprocessMessageValues(calls[i].template, calls[i].values).returned
            # calls[i].values

(***************************************************************************)
(* C3.  Every token format returned passes the resolver's test, and the    *)
(* end-anchored match splits it into exactly the key the record was        *)
(* appended under and the index the record has in the key's sequence,      *)
(* also for a keyname that contains `#` and digits.                        *)
(***************************************************************************)
C3_TokenRoundTrip ==
  \A i \in 1..Len(calls) :
    LET m == TokenMatch(calls[i].token)
        usages == formattedStringUsages[calls[i].key]
        got == ArrayGet(usages, m.usageIndex)
    IN /\ TokenTest(calls[i].token)
       /\ m.templateKey = calls[i].key
       /\ got.found
       /\ got.at = CallIndex(i) + 1
       /\ usages[got.at] = [key |-> calls[i].key,
                            template |-> calls[i].template,
                            values |-> calls[i].values]

\* a token of the key whose keyname is "k#1", and one with index 1
C3_Witness ==
  /\ \E i \in 1..Len(calls) : calls[i].key = KeyTitle
  /\ \E i \in 1..Len(calls) : CallIndex(i) = 1

(***************************************************************************)
(* C4.  format(template, values) fails, naming the template, exactly when  *)
(* the template is none of the texts of the formatter's merged catalog; a  *)
(* failed call leaves the registry as it was, and a call with a registered *)
(* text succeeds and returns a token.                                      *)
(***************************************************************************)
C4_FailsExactlyWhenUnregistered ==
  last.op = "format" =>
    LET merged == Spread(UIStrings, last.formatter.fileStrings)
        registered == \E i \in 1..Len(merged) : merged[i].text = last.template
    IN /\ last.threw <=> ~registered
       /\ last.threw =>
            /\ last.error = last.template
            /\ formattedStringUsages = last.before
       /\ ~last.threw => TokenTest(last.returned)

(***************************************************************************)
(* C5.  A pass over a tree with a token-shaped leaf whose key and index    *)
(* have no usage record (a key never recorded, or an index not below the   *)
(* number of the key's records) raises an error: it does not complete, and *)
(* no localeLog is attached.                                               *)
(***************************************************************************)
\* the text before the last `#` and the digits after it
KeyPart(s) ==
  SubSeq(s, 1, (CHOOSE q \in 1..Len(s) :
                  s[q] = "#" /\ \A k \in (q + 1)..Len(s) : s[k] # "#") - 1)

IndexPart(s) == SubSeq(s, Len(KeyPart(s)) + 2, Len(s))

HasUsageRecord(usages, s) ==
  /\ KeyPart(s) \in DOMAIN usages
  /\ StringToNat(IndexPart(s)) < Len(usages[KeyPart(s)])

C5_DanglingIsFatal ==
  last.op = "resolve" =>
    LET before == LeavesOf(last.lhr, <<>>)
    IN (\E n \in TokenPositions(before) :
          ~HasUsageRecord(last.before, before[n].node.str))
         => last.threw /\ ~last.attached

\* a pass that has rewritten a first token and then meets the index one past
\* the records of the same key
C5_Witness ==
  /\ last.op = "resolve"
  /\ KeyMs \in DOMAIN last.before
  /\ Len(last.before[KeyMs]) = 1
  /\ last.lhr = AuditsTree(Str(TokenOf(KeyMs, 0)), Str(TokenOf(KeyMs, 1)))
  /\ last.threw

(***************************************************************************)
(* C6.  A pass rewrites a leaf only if the whole leaf is a string of the   *)
(* shape <origin>!#<keyname>#<digits>.  Every other leaf (text that only   *)
(* ends in #<digits>, a number, null) has the same value after the pass,   *)
(* and a tree without any leaf of that shape comes back unchanged, with an *)
(* empty log and without an error.                                         *)
(***************************************************************************)
HasTokenShape(s) ==
  \E j \in 1..(Len(s) - 1) :
    /\ s[j] = "#"
    /\ \A k \in (j + 1)..Len(s) : IsDigit(s[k])
    /\ \E i \in 1..(j - 2) : s[i] = "!" /\ s[i + 1] = "#"

ShapedPositions(leaves) ==
  {n \in 1..Len(leaves) :
     leaves[n].node.kind = "string" /\ HasTokenShape(leaves[n].node.str)}

C6_OnlyTokensRewritten ==
  last.op = "resolve" =>
    LET before == LeavesOf(last.lhr, <<>>)
        after == LeavesOf(last.out, <<>>)
    IN /\ Len(after) = Len(before)
       /\ \A n \in (1..Len(before)) \ ShapedPositions(before) :
            after[n] = before[n]
       /\ ShapedPositions(before) = {} =>
            /\ ~last.threw
            /\ last.out = last.lhr
            /\ last.localeLog = EmptyMap
            /\ formattedStringUsages = last.before

\* a completed pass over text ending in #12 followed by a token
C6_Witness ==
  /\ last.op = "resolve"
  /\ ~last.threw
  /\ \E i \in 1..Len(calls) :
       last.lhr = ItemsTree(Str(<<"x", "#", "1", "2">>), Str(calls[i].token))
  /\ last.out # last.lhr

(***************************************************************************)
(* C7.  A missing localization never fails.  At any locale, also one       *)
(* without a catalog, a pass completes when every token of the tree was    *)
(* returned by format and its values supply the arguments of the recorded  *)
(* template; a token whose key has no entry in the locale's catalog is     *)
(* replaced by the message of the recorded template, and the log entry of  *)
(* that key names that template, never an empty one.                       *)
(***************************************************************************)
NoCatalogEntry(loc, key) ==
  loc \notin DOMAIN LOCALES \/ ~HasKey(LOCALES[loc], key)

\* the recorded template formatted with the preprocessed copy of the values
DefaultFormat(loc, t, v) ==
  MessageFormat(t, IF loc = "en-XA" THEN "de-DE" ELSE loc,
                preprocessMessageValues(t, v).returned)

CallOf(s) == CHOOSE i \in CallsReturning(s) : TRUE

C7_MissingLocalizationFallsBack ==
  last.op = "resolve" =>
    LET before == LeavesOf(last.lhr, <<>>)
        after == LeavesOf(last.out, <<>>)
        toks == TokenPositions(before)
        Rec(n) == calls[CallOf(before[n].node.str)]
        complete ==
          \A n \in toks :
            /\ CallsReturning(before[n].node.str) # {}
            /\ ~DefaultFormat(last.locale, Rec(n).template, Rec(n).values).threw
        \* the last token of the key of position n, in traversal order
        LastOf(n) == CHOOSE x \in toks :
                       /\ Rec(x).key = Rec(n).key
                       /\ \A y \in toks : Rec(y).key = Rec(n).key => y <= x
    IN /\ complete => ~last.threw
       /\ ~last.threw =>
            \A n \in toks :
              NoCatalogEntry(last.locale, Rec(n).key) =>
                /\ after[n].node =
                     Str(DefaultFormat(last.locale, Rec(n).template,
                                       Rec(n).values).message)
                /\ Rec(n).key \in DOMAIN last.localeLog
                /\ last.localeLog[Rec(n).key].template = Rec(LastOf(n)).template
                /\ last.localeLog[Rec(n).key].template # ""

\* a completed pass at a locale whose catalog has the first key and lacks
\* the second
C7_Witness ==
  /\ last.op = "resolve"
  /\ ~last.threw
  /\ last.locale = "de"
  /\ KeyMs \in DOMAIN last.localeLog
  /\ KeyBytes \in DOMAIN last.localeLog
  /\ last.localeLog[KeyBytes].template = BytesText

(***************************************************************************)
(* C8.  After a pass that completes, the attached localeLog describes      *)
(* exactly that pass: it has an entry for a key if and only if the tree    *)
(* held a token of the key, and the entry's occurrences are, in traversal  *)
(* order, one per such leaf, each with the values of the leaf's usage      *)
(* record and the leaf's path.                                             *)
(***************************************************************************)
ExpectedOccurrences(leaves, key) ==
  LET sel == SelectSeq(leaves,
                       LAMBDA l : /\ l.node.kind = "string"
                                  /\ TokenTest(l.node.str)
                                  /\ calls[CallOf(l.node.str)].key = key)
  IN [j \in 1..Len(sel) |->
        [values |-> calls[CallOf(sel[j].node.str)].values,
         path |-> sel[j].path]]

C8_LocaleLogDescribesPass ==
  (last.op = "resolve" /\ ~last.threw) =>
    LET before == LeavesOf(last.lhr, <<>>)
        toks == TokenPositions(before)
    IN /\ last.attached
       /\ \A n \in toks : CallsReturning(before[n].node.str) # {}
       /\ DOMAIN last.localeLog =
            {calls[CallOf(before[n].node.str)].key : n \in toks}
       /\ \A k \in DOMAIN last.localeLog :
            last.localeLog[k].occurrences = ExpectedOccurrences(before, k)

\* the same token at two paths: two occurrences under one entry
C8_Witness ==
  /\ last.op = "resolve"
  /\ ~last.threw
  /\ \E i \in 1..Len(calls) :
       /\ last.lhr = AuditsTree(Str(calls[i].token), Str(calls[i].token))
       /\ Len(last.localeLog[calls[i].key].occurrences) = 2
       /\ last.localeLog[calls[i].key].occurrences[1].path
            # last.localeLog[calls[i].key].occurrences[2].path

(***************************************************************************)
(* C9.  The values of a usage record are never changed: after any format   *)
(* calls and passes at any locales, every record still holds the values    *)
(* that were passed to the format call that created it.                    *)
(***************************************************************************)
C9_RecordValuesNotMutated ==
  \A i \in 1..Len(calls) :
    /\ calls[i].key \in DOMAIN formattedStringUsages
    /\ CallIndex(i) < Len(formattedStringUsages[calls[i].key])
    /\ formattedStringUsages[calls[i].key][CallIndex(i) + 1].values
         = calls[i].values

\* after a completed pass that rounded the milliseconds of a record and
\* converted the bytes of another
C9_Witness ==
  /\ last.op = "resolve"
  /\ ~last.threw
  /\ \E i, j \in 1..Len(calls) :
       /\ last.lhr = AuditsTree(Str(calls[i].token), Str(calls[j].token))
       /\ calls[i].key = KeyMs
       /\ calls[j].key = KeyBytes
       /\ DefaultFormat("en-GB", calls[i].template, calls[i].values)
            # MessageFormat(calls[i].template, "en-GB", calls[i].values)

(***************************************************************************)
(* C10.  Passes over pristine copies of a tree are repeatable: once a pass *)
(* over a tree at a locale has completed, every later pass over a pristine *)
(* copy of that tree at that locale completes with the same rewritten tree *)
(* and the same localeLog, whatever format calls, setLocale calls and      *)
(* passes at other locales or over other trees came in between.            *)
(***************************************************************************)
C10_PassesRepeatable ==
  (/\ pinned.op = "resolve"
   /\ last.op = "resolve"
   /\ last.lhr = pinned.lhr
   /\ last.locale = pinned.locale)
    => /\ ~last.threw
       /\ last.attached
       /\ last.out = pinned.out
       /\ last.localeLog = pinned.localeLog

\* the remembered pass, then further format calls and a setLocale, then a
\* pass over the same tree at the same locale
C10_Witness ==
  /\ pinned.op = "resolve"
  /\ last.op = "resolve"
  /\ last.lhr = pinned.lhr
  /\ last.locale = pinned.locale
  /\ last.before # pinned.before
  /\ locale = "de"
  /\ pinned.out # pinned.lhr

(***************************************************************************)
(* C11.  The registry is append-only: across every step (a format call     *)
(* that succeeds or fails, setLocale, a pass that completes or aborts)     *)
(* every key stays, the sequence of records of every key keeps the         *)
(* previous sequence as a prefix, every record is stored under its own     *)
(* key, and a successful format call changes only the sequence of its own  *)
(* key, by exactly the one record of the call appended.                    *)
(***************************************************************************)
IsPrefix(a, b) == Len(a) <= Len(b) /\ SubSeq(b, 1, Len(a)) = a

AppendOnlyStep ==
  /\ \A k \in DOMAIN formattedStringUsages :
       /\ k \in DOMAIN formattedStringUsages'
       /\ IsPrefix(formattedStringUsages[k], formattedStringUsages'[k])
  /\ \A k \in DOMAIN formattedStringUsages' :
       \A i \in 1..Len(formattedStringUsages'[k]) :
         formattedStringUsages'[k][i].key = k
  /\ (last'.op = "format" /\ ~last'.threw) =>
       formattedStringUsages' =
         MapSet(formattedStringUsages, last'.key,
                Append(MapGet(formattedStringUsages, last'.key, <<>>),
                       [key |-> last'.key, template |-> last'.template,
                        values |-> last'.values]))
  /\ (last'.op # "format" \/ last'.threw) =>
       formattedStringUsages' = formattedStringUsages

C11_RegistryAppendOnly == [][AppendOnlyStep]_vars

\* a key with two records and another key, after a pass that aborted
C11_Witness ==
  /\ \E k \in DOMAIN formattedStringUsages : Len(formattedStringUsages[k]) = 2
  /\ Cardinality(DOMAIN formattedStringUsages) = 2
  /\ last.op = "resolve"
  /\ last.threw
  /\ formattedStringUsages = last.before

(***************************************************************************)
(* C12.  preprocessMessageValues returns a mapping with exactly the keys   *)
(* of its input (none added, none dropped, also for a key whose value is   *)
(* undefined and for a styled placeholder without a value), in which every *)
(* entry that is no milliseconds- or bytes-styled placeholder of the       *)
(* template equals the input entry; without values it returns no mapping.  *)
(***************************************************************************)
\* the own keys of a values object
KeysOf(values) == {id \in Ids : values.map[id].t # "absent"}

\* the placeholders of the template that have one of the two styles
StyledIds(msg) ==
  {ParseElements(msg)[n].id :
     n \in {k \in 1..Len(ParseElements(msg)) :
              /\ ParseElements(msg)[k].type = "argument"
              /\ ParseElements(msg)[k].style \in {"milliseconds", "bytes"}}}

C12_SameKeysOthersUnchanged ==
  last.op = "preprocess" =>
    IF ~last.values.present THEN ~last.returned.present
    ELSE /\ last.returned.present
         /\ KeysOf(last.returned) = KeysOf(last.values)
         /\ \A id \in KeysOf(last.values) \ StyledIds(last.msg) :
              last.returned.map[id] = last.values.map[id]

(***************************************************************************)
(* C13.  For an integer x under a milliseconds-styled placeholder the      *)
(* preprocessed value is a multiple of 10 with |result - x| <= 5, and a    *)
(* second call on the same template and values returns what the first      *)
(* returned.                                                               *)
(***************************************************************************)
IsInteger(v) == v.t = "number" /\ v.d = 1

MsStyledIds(msg) ==
  {ParseElements(msg)[n].id :
     n \in {k \in 1..Len(ParseElements(msg)) :
              /\ ParseElements(msg)[k].type = "argument"
              /\ ParseElements(msg)[k].style = "milliseconds"}}

C13_RoundsToNearestTen ==
  last.op = "preprocess" =>
    /\ \A id \in MsStyledIds(last.msg) :
         (last.values.present /\ IsInteger(last.values.map[id])) =>
           /\ IsInteger(last.returned.map[id])
           /\ last.returned.map[id].n % 10 = 0
           /\ Abs(last.returned.map[id].n - last.values.map[id].n) <= 5
    /\ last.again => last.returned2 = last.returned

\* 1234 rounded to 1230 next to bytes the template does not style, and the
\* second call made
C13_Witness ==
  /\ last.op = "preprocess"
  /\ last.msg = MsText
  /\ last.values = Values([id \in Ids |-> IF id = "timeInMs" THEN Num(1234, 1)
                                          ELSE Num(1536, 1)])
  /\ last.returned.map["timeInMs"] = Num(1230, 1)
  /\ last.again

(***************************************************************************)
(* C14.  Locale state is separate from recording.  setLocale(l) leaves the *)
(* current locale as it is when l is empty or absent and otherwise sets it *)
(* to l, whatever l is, and never changes the registry; a format call      *)
(* never changes the current locale, and the token it returns and the      *)
(* record it stores depend on the call and the earlier calls only: calls   *)
(* of one formatter with the same template and values get the same key     *)
(* whatever setLocale calls came before, the token is that key with the    *)
(* number of earlier calls of the key, and the record is the call's key,   *)
(* template and values.                                                    *)
(***************************************************************************)
LocaleStep ==
  /\ last'.op = "setLocale" =>
       /\ locale' = IF last'.newLocale \in {"", JSNull, JSUndefined}
                    THEN locale ELSE last'.newLocale
       /\ formattedStringUsages' = formattedStringUsages
  /\ last'.op = "format" => locale' = locale

RecordingIgnoresLocale ==
  \A i \in 1..Len(calls) :
    /\ \A j \in 1..Len(calls) :
         (calls[i].formatter = calls[j].formatter
            /\ calls[i].template = calls[j].template
            /\ calls[i].values = calls[j].values)
           => calls[i].key = calls[j].key
    /\ calls[i].token = TokenOf(calls[i].key, CallIndex(i))
    /\ formattedStringUsages[calls[i].key][CallIndex(i) + 1]
         = [key |-> calls[i].key, template |-> calls[i].template,
            values |-> calls[i].values]

C14_LocaleSeparateFromRecording ==
  [][LocaleStep]_vars /\ []RecordingIgnoresLocale

\* the locale was set to one no catalog knows, and the last format call
\* repeats the first one
C14_Witness ==
  /\ locale = "tlh"
  /\ last.op = "format"
  /\ ~last.threw
  /\ Len(calls) = 3
  /\ calls[3].formatter = calls[1].formatter
  /\ calls[3].template = calls[1].template
  /\ calls[3].values = calls[1].values
  /\ calls[3].token # calls[1].token

(***************************************************************************)
(* C15.  The key of a successful format(t) is <origin>!#<keyname> for an   *)
(* entry of the merged catalog whose text is t, where the origin is the    *)
(* core module's path if and only if that entry is an entry of UIStrings,  *)
(* and the caller's filename for an entry of the caller's own catalog.     *)
(***************************************************************************)
IsEntryOf(catalog, e) == \E j \in 1..Len(catalog) : catalog[j] = e

C15_OriginFollowsEntry ==
  (last.op = "format" /\ ~last.threw) =>
    LET merged == Spread(UIStrings, last.formatter.fileStrings)
    IN \E i \in 1..Len(merged) :
         /\ merged[i].text = last.template
         /\ last.key =
              FileScopedKey(IF IsEntryOf(UIStrings, merged[i])
                            THEN CoreFile ELSE last.formatter.filename,
                            merged[i].key)

(***************************************************************************)
(* C16.  A pass over a finite tree all of whose token leaves resolve ends: *)
(* it completes with the localeLog attached, the tree keeps its shape,     *)
(* every token leaf holds the message of its own usage record (also when   *)
(* that message reads like a token: it is not resolved again), every other *)
(* leaf is as it was, and the log holds one occurrence per token leaf, so  *)
(* that every leaf was visited exactly once.                               *)
(***************************************************************************)
\* the usage record a token names
RecordOf(usages, s) == usages[KeyPart(s)][StringToNat(IndexPart(s)) + 1]

\* the paths of all occurrences of a log
OccurrencePaths(log) ==
  UNION {{log[k].occurrences[j].path : j \in 1..Len(log[k].occurrences)} :
           k \in DOMAIN log}

C16_EveryLeafVisitedOnce ==
  last.op = "resolve" =>
    LET before == LeavesOf(last.lhr, <<>>)
        after == LeavesOf(last.out, <<>>)
        toks == TokenPositions(before)
        Message(n) ==
          LET rec == RecordOf(last.before, before[n].node.str)
          IN DirectFormat(last.locale, rec.key, rec.template, rec.values)
        resolves ==
          \A n \in toks :
            /\ HasUsageRecord(last.before, before[n].node.str)
            /\ ~Message(n).threw
    IN resolves =>
         /\ ~last.threw
         /\ last.attached
         /\ Len(after) = Len(before)
         /\ \A n \in 1..Len(before) : after[n].path = before[n].path
         /\ \A n \in toks : after[n].node = Str(Message(n).message)
         /\ \A n \in (1..Len(before)) \ toks : after[n] = before[n]
         /\ OccurrencePaths(last.localeLog) = {before[n].path : n \in toks}
         /\ \A k \in DOMAIN last.localeLog :
              \A i, j \in 1..Len(last.localeLog[k].occurrences) :
                i # j => last.localeLog[k].occurrences[i].path
                           # last.localeLog[k].occurrences[j].path

\* a completed pass that wrote, three containers deep, a message that reads
\* like the token of an existing record, and left it there
C16_Witness ==
  /\ last.op = "resolve"
  /\ ~last.threw
  /\ KeyMs \in DOMAIN last.before
  /\ \E i \in 1..Len(calls) :
       /\ calls[i].template = AgainText
       /\ last.lhr = DeepTree(Str(calls[i].token), Scalar("null", <<>>),
                              Str(TokenOf(KeyMs, 0)))
  /\ last.out = DeepTree(Str(TokenOf(KeyMs, 0)), Scalar("null", <<>>),
                         Str(<<"1", ".", "2", "3", "0", " ", "M", "i", "l",
                               "l", "i", "s", "e", "k", ".">>))

(***************************************************************************)
(* C17.  A pass that aborts on a dangling token (the first token leaf      *)
(* without a usage record, the token leaves before it having been          *)
(* resolved) raises an error and leaves the registry as it was, attaches   *)
(* no localeLog, and leaves the failing leaf and every leaf after it in    *)
(* traversal order with their values; the token leaves before it hold      *)
(* their messages.                                                         *)
(***************************************************************************)
\* the token leaves without a usage record
DanglingPositions(usages, leaves) ==
  {n \in TokenPositions(leaves) : ~HasUsageRecord(usages, leaves[n].node.str)}

C17_AbortLeavesTheRestUntouched ==
  last.op = "resolve" =>
    LET before == LeavesOf(last.lhr, <<>>)
        after == LeavesOf(last.out, <<>>)
        dangling == DanglingPositions(last.before, before)
        first == CHOOSE d \in dangling : \A e \in dangling : d <= e
        earlier == {n \in TokenPositions(before) : n < first}
        Message(n) ==
          LET rec == RecordOf(last.before, before[n].node.str)
          IN DirectFormat(last.locale, rec.key, rec.template, rec.values)
    IN (dangling # {} /\ \A n \in earlier : ~Message(n).threw) =>
         /\ last.threw
         /\ ~last.attached
         /\ formattedStringUsages = last.before
         /\ Len(after) = Len(before)
         /\ \A n \in first..Len(before) : after[n] = before[n]
         /\ \A n \in earlier : after[n].node = Str(Message(n).message)

\* an aborted pass whose first leaf is the index one past the records of
\* its key and whose second leaf, a token with a record, is still a token
C17_Witness ==
  /\ last.op = "resolve"
  /\ last.threw
  /\ \E i \in 1..Len(calls) :
       /\ last.lhr = ItemsTree(PastEndLeaf(last.before), Str(calls[i].token))
       /\ LeavesOf(last.out, <<>>)[2].node = Str(calls[i].token)
       /\ ~DefaultFormat(last.locale, calls[i].template, calls[i].values).threw

====
